---- MODULE Spec2Model ----
(***************************************************************************)
(* bgit: commit one file directly to a target branch without checking the  *)
(* branch out (src/src/main.rs).                                           *)
(*                                                                         *)
(* The object store is content addressed.  An object id (git2::Oid) is the *)
(* digest of the object's canonical serialisation; the digest is taken to  *)
(* be collision free, so an id is represented by the serialised object     *)
(* itself: a blob by its bytes, a tree by the sequence of its entries in   *)
(* canonical (name) order, a commit by its fields.  An object is readable  *)
(* only when it is a member of the store `odb`.                            *)
(***************************************************************************)
EXTENDS Integers, Sequences, FiniteSets, TLC

(* ------------------------------ bounds -------------------------------- *)

\* Distinct path component names, 1..NumNames, ordered as their bytes are.
NumNames == 2
\* Longest repository-relative path, in components.
MaxPathLen == 3

(* ------------------------- program constants -------------------------- *)

\* 0o100644, 0o100755 (main.rs:115) and 0o040000 (main.rs:327)
FILEMODE_BLOB == 33188
FILEMODE_BLOB_EXECUTABLE == 33261
FILEMODE_TREE == 16384

(* ------------------------------ objects ------------------------------- *)

Names == 1..NumNames

\* File contents: the empty file and a non-empty one.
Contents == {<<>>, <<7>>}

FileModes == {FILEMODE_BLOB, FILEMODE_BLOB_EXECUTABLE}

\* Option::None, for an absent base tree or an absent id.
None == [kind |-> "none"]

BlobObj(bytes) == [kind |-> "blob", bytes |-> bytes]

TreeObj(entries) == [kind |-> "tree", entries |-> entries]

EmptyTree == TreeObj(<<>>)

SetMin(S) == CHOOSE x \in S : \A y \in S : x <= y

\* Mutant: the builder is never seeded from the base tree.
treebuilder_unseeded(base_tree) == [n \in {} |-> [kind |-> "none"]]

\* A TreeBuilder is a map from entry name to (mode, oid); names are unique.
\* repo.treebuilder(Some(t)) starts from t's entries, treebuilder(None) from
\* nothing.
treebuilder(base_tree) ==
    IF base_tree = None
    THEN [n \in {} |-> None]
    ELSE LET es == base_tree.entries
             at(n) == CHOOSE i \in 1..Len(es) : es[i].name = n
         IN [n \in {es[i].name : i \in 1..Len(es)} |->
                [mode |-> es[at(n)].mode, oid |-> es[at(n)].oid]]

\* Mutant: insert adds an entry but does not replace one.
tb_insert_if_absent(tb, name, oid, filemode) ==
    [n \in (DOMAIN tb) \cup {name} |->
        IF n \in DOMAIN tb THEN tb[n] ELSE [mode |-> filemode, oid |-> oid]]

\* tb.insert(name, oid, filemode): add the entry, or replace the entry of
\* that name.
tb_insert(tb, name, oid, filemode) ==
    [n \in (DOMAIN tb) \cup {name} |->
        IF n = name THEN [mode |-> filemode, oid |-> oid] ELSE tb[n]]

RECURSIVE SortedEntries(_, _)
SortedEntries(tb, names) ==
    IF names = {}
    THEN <<>>
    ELSE LET n == SetMin(names)
         IN <<[name |-> n, mode |-> tb[n].mode, oid |-> tb[n].oid]>>
                \o SortedEntries(tb, names \ {n})

\* tb.write(): serialise the entries in canonical order; the id is the
\* digest of that serialisation.
tb_write(tb) == TreeObj(SortedEntries(tb, DOMAIN tb))

\* t.get_name(name): the entry of that name, if any.
get_name(tree, name) ==
    LET es == tree.entries
        hits == {i \in 1..Len(es) : es[i].name = name}
    IN IF hits = {} THEN None ELSE es[CHOOSE i \in hits : TRUE]

(* ------------------------- tree upsert engine ------------------------- *)

\* Result<Oid> together with the store after the call.
Ok(oid, store) == [ok |-> TRUE, oid |-> oid, odb |-> store]
Err(store) == [ok |-> FALSE, oid |-> None, odb |-> store]

\* Mutant: the existing subtree is never found.
existing_subtree_none(store, base_tree, name) == None

\* The "find existing subtree" block of upsert_components: the id of the
\* entry `name` of base_tree when that entry's object can be read from the
\* store and is a tree; None otherwise (no base, no entry, a blob, or an
\* unreadable object).
existing_subtree(store, base_tree, name) ==
    IF base_tree = None
    THEN None
    ELSE LET entry == get_name(base_tree, name)
         IN IF entry # None /\ entry.oid \in store /\ entry.oid.kind = "tree"
            THEN entry.oid
            ELSE None

\* Mutant: directory entries are inserted with the leaf's mode.
RECURSIVE upsert_components_leaf_mode(_, _, _, _, _)
upsert_components_leaf_mode(store, base_tree, comps, blob_oid, filemode) ==
    IF Len(comps) = 0
    THEN Err(store)
    ELSE IF Len(comps) = 1
    THEN LET oid == tb_write(tb_insert(treebuilder(base_tree), comps[1],
                                       blob_oid, filemode))
         IN Ok(oid, store \cup {oid})
    ELSE LET child == upsert_components_leaf_mode(
                          store, existing_subtree(store, base_tree, comps[1]),
                          Tail(comps), blob_oid, filemode)
             oid == tb_write(tb_insert(treebuilder(base_tree), comps[1],
                                       child.oid, filemode))
         IN IF child.ok THEN Ok(oid, child.odb \cup {oid}) ELSE child

\* Mutant: a directory component that names a file of the base is an error.
RECURSIVE upsert_components_reject_collision(_, _, _, _, _)
upsert_components_reject_collision(store, base_tree, comps, blob_oid, filemode) ==
    IF Len(comps) = 0
    THEN Err(store)
    ELSE IF Len(comps) = 1
    THEN LET oid == tb_write(tb_insert(treebuilder(base_tree), comps[1],
                                       blob_oid, filemode))
         IN Ok(oid, store \cup {oid})
    ELSE IF /\ base_tree # None
            /\ get_name(base_tree, comps[1]) # None
            /\ existing_subtree(store, base_tree, comps[1]) = None
    THEN Err(store)
    ELSE LET child == upsert_components_reject_collision(
                          store, existing_subtree(store, base_tree, comps[1]),
                          Tail(comps), blob_oid, filemode)
             oid == tb_write(tb_insert(treebuilder(base_tree), comps[1],
                                       child.oid, FILEMODE_TREE))
         IN IF child.ok THEN Ok(oid, child.odb \cup {oid}) ELSE child

RECURSIVE upsert_components(_, _, _, _, _)
upsert_components(store, base_tree, comps, blob_oid, filemode) ==
    IF Len(comps) = 0
    THEN Err(store)
    ELSE IF Len(comps) = 1
    THEN LET tb == tb_insert(treebuilder(base_tree), comps[1], blob_oid, filemode)
             oid == tb_write(tb)
         IN Ok(oid, store \cup {oid})
    ELSE LET name == comps[1]
             rest == Tail(comps)
             existing == existing_subtree(store, base_tree, name)
             child == upsert_components(store, existing, rest, blob_oid, filemode)
         IN IF ~child.ok
            THEN child
            ELSE LET tb == tb_insert(treebuilder(base_tree), name, child.oid,
                                     FILEMODE_TREE)
                     oid == tb_write(tb)
                 IN Ok(oid, child.odb \cup {oid})

upsert_path_into_tree(store, base_tree, path, blob_oid, filemode) ==
    IF Len(path) = 0
    THEN Err(store)
    ELSE upsert_components(store, base_tree, path, blob_oid, filemode)

(* ------------------------------ commits ------------------------------- *)

\* Latest value of the wall clock read by Signature::now.
MaxTime == 2

Branches == {"main", "feature", "topic"}

\* HEAD is a symbolic ref to this branch.
HeadBranch == "main"

\* Option::Some
Some(x) == [kind |-> "some", val |-> x]

\* A commit message: a text, and the path the default message names.
Message(text, path) == [text |-> text, path |-> path]

\* Signature::now(name, email)
Signature(name, email, when) == [name |-> name, email |-> email, when |-> when]

CommitObj(tree, parents, author, committer, message) ==
    [kind |-> "commit", tree |-> tree, parents |-> parents, author |-> author,
     committer |-> committer, message |-> message]

\* The objects an id reaches: a commit its tree and parents, a tree its
\* entries' targets.
RECURSIVE Closure(_)
Closure(oid) ==
    IF oid.kind = "commit"
    THEN {oid} \cup Closure(oid.tree)
               \cup UNION {Closure(oid.parents[i]) : i \in 1..Len(oid.parents)}
    ELSE IF oid.kind = "tree"
    THEN {oid} \cup UNION {Closure(oid.entries[i].oid) : i \in 1..Len(oid.entries)}
    ELSE IF oid.kind = "blob"
    THEN {oid}
    ELSE {}

(* ------------------- the repository before the run -------------------- *)

OldBlob == BlobObj(<<7, 7>>)

Entry(name, mode, oid) == [name |-> name, mode |-> mode, oid |-> oid]

\* { 1: file }
Tree0 == TreeObj(<<Entry(1, FILEMODE_BLOB, OldBlob)>>)

\* { 1: file, 2: { 1: file (executable) } }
Tree1 ==
    TreeObj(<<Entry(1, FILEMODE_BLOB, OldBlob),
              Entry(2, FILEMODE_TREE,
                    TreeObj(<<Entry(1, FILEMODE_BLOB_EXECUTABLE, OldBlob)>>))>>)

\* { 1: { 2: file }, 2: file }
TreeX ==
    TreeObj(<<Entry(1, FILEMODE_TREE,
                    TreeObj(<<Entry(2, FILEMODE_BLOB, OldBlob)>>)),
              Entry(2, FILEMODE_BLOB, BlobObj(<<>>))>>)

Sig0 == Signature("rn", "re", 0)

Commit0 == CommitObj(Tree0, <<>>, Sig0, Sig0, Message("init", <<>>))
Commit1 == CommitObj(Tree1, <<Commit0>>, Sig0, Sig0, Message("second", <<>>))
CommitX == CommitObj(TreeX, <<Commit0>>, Sig0, Sig0, Message("remote", <<>>))

(* ------------------------------- state -------------------------------- *)

VARIABLES
    odb,          \* the object store: the set of objects written
    heads,        \* refs/heads/<branch>: a commit id, or None
    remotes,      \* refs/remotes/origin/<branch>: a commit id, or None
    origin,       \* the branch tips of the remote repository "origin"
    args,         \* the command line: branch, track_remote, push
    pc,           \* the statement commit_to_branch is at
    err,          \* the error the run ended with, "" while there is none
    trace,        \* the steps executed so far, in order
    parent,       \* (parent_commit_oid, parent_tree_oid) from ensure_branch_base
    how,          \* the case of ensure_branch_base that returned
    blob_oid,     \* repo.blob_path(&abs_file)
    filemode,     \* the leaf's mode, from the file's permission bits
    rel,          \* the repository-relative path, as components
    new_tree,     \* upsert_path_into_tree's result
    config,       \* the configuration read: repository scope, global scope
    sig,          \* the author/committer signature
    new_commit,   \* the commit written by repo.commit
    tip_seen,     \* the target of the branch ref as repo.commit read it
    heads0,       \* heads when the run started
    remotes0,     \* remotes when the run started
    runs          \* the number of invocations started so far

vars == <<odb, heads, remotes, origin, args, pc, err, trace, parent, how,
          blob_oid, filemode, rel, new_tree, config, sig, new_commit,
          tip_seen, heads0, remotes0, runs>>

repo_vars == <<odb, heads, remotes, origin>>
local_vars ==
    <<parent, how, blob_oid, filemode, rel, new_tree, config, sig, new_commit,
      tip_seen>>

\* A step of the run: record it, move to the next statement.
Goto(label, next) ==
    /\ trace' = Append(trace, label)
    /\ pc' = next
    /\ err' = ""

\* `?` on an Err: the run ends with the error, nothing after it executes.
Fail(label, kind) ==
    /\ trace' = Append(trace, label)
    /\ pc' = "failed"
    /\ err' = kind

NoLocals ==
    /\ parent = None
    /\ how = ""
    /\ blob_oid = None
    /\ filemode = 0
    /\ rel = <<>>
    /\ new_tree = None
    /\ config = None
    /\ sig = None
    /\ new_commit = None
    /\ tip_seen = None

\* The repository and the remote before the run.  main is checked out at
\* Commit1 and was pushed, but refs/remotes/origin/main is one commit behind;
\* feature may exist locally, as a remote-tracking ref, on origin.
Init ==
    /\ \E f \in {None, Commit0, Commit1}, r \in {None, CommitX},
          o \in {None, CommitX} :
        /\ heads = [b \in Branches |-> IF b = HeadBranch THEN Commit1 ELSE f]
        /\ remotes = [b \in Branches |-> IF b = HeadBranch THEN Commit0 ELSE r]
        /\ origin = [b \in Branches |-> IF b = HeadBranch THEN Commit1 ELSE o]
        /\ odb = Closure(Commit1) \cup (IF r = None THEN {} ELSE Closure(r))
    /\ args \in [branch : Branches, track_remote : BOOLEAN, push : BOOLEAN]
    /\ pc = "open"
    /\ err = ""
    /\ trace = <<>>
    /\ NoLocals
    /\ heads0 = heads
    /\ remotes0 = remotes
    /\ runs = 1

(* -------------------------- commit_to_branch -------------------------- *)

\* Repository::open / Repository::discover
OpenRepo ==
    /\ pc = "open"
    /\ \/ Goto("open", "workdir")
       \/ Fail("open", "RepositoryNotFound")
    /\ UNCHANGED <<repo_vars, args, local_vars, heads0, remotes0, runs>>

\* Mutant: the remote is fetched before the working directory is asked for.
CheckWorkdir_fetch_first ==
    /\ pc = "workdir"
    /\ remotes' = [b \in Branches |->
                      IF origin[b] # None THEN origin[b] ELSE remotes[b]]
    /\ odb' = odb \cup UNION {Closure(origin[b]) : b \in Branches}
    /\ \/ Goto("workdir", "exists")
       \/ Fail("workdir", "BareRepositoryUnsupported")
    /\ UNCHANGED <<heads, origin, args, local_vars, heads0, remotes0, runs>>

\* repo.workdir(): None for a bare repository
CheckWorkdir ==
    /\ pc = "workdir"
    /\ \/ Goto("workdir", "exists")
       \/ Fail("workdir", "BareRepositoryUnsupported")
    /\ UNCHANGED <<repo_vars, args, local_vars, heads0, remotes0, runs>>

\* Mutant: the branch is made sure of before the file is looked for.
CheckFile_after_branch ==
    /\ pc = "exists"
    /\ heads' = [heads EXCEPT ![args.branch] =
                     IF @ = None THEN heads[HeadBranch] ELSE @]
    /\ \/ Goto("exists", "local")
       \/ Fail("exists", "FileNotFound")
    /\ UNCHANGED <<odb, remotes, origin, args, local_vars, heads0, remotes0,
                   runs>>

\* abs_file.exists()
CheckFile ==
    /\ pc = "exists"
    /\ \/ Goto("exists", "local")
       \/ Fail("exists", "FileNotFound")
    /\ UNCHANGED <<repo_vars, args, local_vars, heads0, remotes0, runs>>

(* ------------------------- ensure_branch_base ------------------------- *)

\* Mutant: with --track-remote the remote is tried before the local branch.
ResolveLocal_remote_first ==
    /\ pc = "local"
    /\ IF heads[args.branch] # None /\ ~args.track_remote
       THEN /\ parent' = [commit |-> heads[args.branch],
                          tree |-> heads[args.branch].tree]
            /\ how' = "local"
            /\ Goto("local", "blob")
       ELSE /\ Goto("local", IF args.track_remote THEN "fetch" ELSE "confirm")
            /\ UNCHANGED <<parent, how>>
    /\ UNCHANGED <<repo_vars, args, blob_oid, filemode, rel, new_tree, config,
                   sig, new_commit, tip_seen, heads0, remotes0, runs>>

\* "Try local branch first"
ResolveLocal ==
    /\ pc = "local"
    /\ IF heads[args.branch] # None
       THEN /\ parent' = [commit |-> heads[args.branch],
                          tree |-> heads[args.branch].tree]
            /\ how' = "local"
            /\ Goto("local", "blob")
       ELSE /\ Goto("local", IF args.track_remote THEN "fetch" ELSE "confirm")
            /\ UNCHANGED <<parent, how>>
    /\ UNCHANGED <<repo_vars, args, blob_oid, filemode, rel, new_tree, config,
                   sig, new_commit, tip_seen, heads0, remotes0, runs>>

\* Mutant: the fetch prunes, a remote-tracking ref follows origin even when
\* origin has no such branch.
Fetch_prune ==
    /\ pc = "fetch"
    /\ \/ /\ remotes' = origin
          /\ odb' = odb \cup UNION {Closure(origin[b]) : b \in Branches}
       \/ UNCHANGED <<remotes, odb>>
    /\ Goto("fetch", "remote")
    /\ UNCHANGED <<heads, origin, args, local_vars, heads0, remotes0, runs>>

\* Mutant: the status of the fetch is propagated, a failed fetch ends the run.
Fetch_fatal ==
    /\ pc = "fetch"
    /\ \/ /\ remotes' = [b \in Branches |->
                            IF origin[b] # None THEN origin[b] ELSE remotes[b]]
          /\ odb' = odb \cup UNION {Closure(origin[b]) : b \in Branches}
          /\ Goto("fetch", "remote")
       \/ /\ UNCHANGED <<remotes, odb>>
          /\ Fail("fetch", "FetchFailure")
    /\ UNCHANGED <<heads, origin, args, local_vars, heads0, remotes0, runs>>

\* git fetch origin; its exit status is discarded.  A fetch that works
\* brings in origin's branches and their objects.
Fetch ==
    /\ pc = "fetch"
    /\ \/ /\ remotes' = [b \in Branches |->
                            IF origin[b] # None THEN origin[b] ELSE remotes[b]]
          /\ odb' = odb \cup UNION {Closure(origin[b]) : b \in Branches}
       \/ UNCHANGED <<remotes, odb>>
    /\ Goto("fetch", "remote")
    /\ UNCHANGED <<heads, origin, args, local_vars, heads0, remotes0, runs>>

\* repo.branch(branch, &commit, false): create refs/heads/<branch>; an
\* existing branch is not overwritten, the call fails.
branch_create(name, commit) ==
    IF heads[name] = None
    THEN [ok |-> TRUE, heads |-> [heads EXCEPT ![name] = commit]]
    ELSE [ok |-> FALSE, heads |-> heads]

\* Mutant: the remote commit is returned but no local branch is created.
ResolveRemote_no_branch ==
    /\ pc = "remote"
    /\ IF remotes[args.branch] # None
       THEN /\ parent' = [commit |-> remotes[args.branch],
                          tree |-> remotes[args.branch].tree]
            /\ how' = "remote"
            /\ Goto("remote", "blob")
       ELSE /\ Goto("remote", "confirm")
            /\ UNCHANGED <<parent, how>>
    /\ UNCHANGED <<repo_vars, args, blob_oid, filemode, rel, new_tree, config,
                   sig, new_commit, tip_seen, heads0, remotes0, runs>>

\* "Optionally try origin/branch as the starting point", after the fetch
ResolveRemote ==
    /\ pc = "remote"
    /\ IF remotes[args.branch] # None
       THEN LET target == remotes[args.branch]
                made == branch_create(args.branch, target)
            IN /\ heads' = made.heads
               /\ IF made.ok
                  THEN /\ parent' = [commit |-> target, tree |-> target.tree]
                       /\ how' = "remote"
                       /\ Goto("remote", "blob")
                  ELSE /\ Fail("remote", "RefUpdateFailure")
                       /\ UNCHANGED <<parent, how>>
       ELSE /\ Goto("remote", "confirm")
            /\ UNCHANGED <<heads, parent, how>>
    /\ UNCHANGED <<odb, remotes, origin, args, blob_oid, filemode, rel,
                   new_tree, config, sig, new_commit, tip_seen,
                   heads0, remotes0, runs>>

\* Mutant: the branch is created from HEAD before the question is asked.
ConfirmCreate_branch_first ==
    /\ pc = "confirm"
    /\ heads' = [heads EXCEPT ![args.branch] = heads[HeadBranch]]
    /\ \E create \in BOOLEAN :
         IF create
         THEN Goto("confirm", "create")
         ELSE Fail("confirm", "BranchNotFound")
    /\ UNCHANGED <<odb, remotes, origin, args, local_vars,
                   heads0, remotes0, runs>>

\* Confirm::new()...interact()?: the answer, or no answer could be read.
\* `if !create { return Err(..) }`
ConfirmCreate ==
    /\ pc = "confirm"
    /\ \/ \E create \in BOOLEAN :
            IF create
            THEN Goto("confirm", "create")
            ELSE Fail("confirm", "BranchNotFound")
       \/ Fail("confirm", "PromptFailure")
    /\ UNCHANGED <<repo_vars, args, local_vars, heads0, remotes0, runs>>

\* repo.head()?.peel_to_commit()
head_commit == heads[HeadBranch]

\* "Create the branch from HEAD"
CreateFromHead ==
    /\ pc = "create"
    /\ IF head_commit = None
       THEN /\ Fail("create", "HeadUnborn")
            /\ UNCHANGED <<heads, parent, how>>
       ELSE LET made == branch_create(args.branch, head_commit)
            IN /\ heads' = made.heads
               /\ IF made.ok
                  THEN /\ parent' = [commit |-> head_commit,
                                     tree |-> head_commit.tree]
                       /\ how' = "head"
                       /\ Goto("create", "blob")
                  ELSE /\ Fail("create", "RefUpdateFailure")
                       /\ UNCHANGED <<parent, how>>
    /\ UNCHANGED <<odb, remotes, origin, args, blob_oid, filemode, rel,
                   new_tree, config, sig, new_commit, tip_seen,
                   heads0, remotes0, runs>>

(* ------------------- commit_to_branch, after the base ----------------- *)

\* repo.find_commit(parent_commit_oid), repo.find_tree(parent_tree_oid),
\* repo.blob_path(&abs_file): the file's bytes become a blob.
WriteBlob ==
    /\ pc = "blob"
    /\ IF parent.commit \in odb /\ parent.tree \in odb
       THEN \/ \E bytes \in Contents :
                 /\ blob_oid' = BlobObj(bytes)
                 /\ odb' = odb \cup {BlobObj(bytes)}
                 /\ Goto("blob", "metadata")
            \/ /\ Fail("blob", "ObjectWriteFailure")
               /\ UNCHANGED <<blob_oid, odb>>
       ELSE /\ Fail("blob", "ObjectReadFailure")
            /\ UNCHANGED <<blob_oid, odb>>
    /\ UNCHANGED <<heads, remotes, origin, args, parent, how, filemode, rel,
                   new_tree, config, sig, new_commit, tip_seen,
                   heads0, remotes0, runs>>

\* mode & 0o111 != 0 selects the executable mode
filemode_of(is_exec) ==
    IF is_exec THEN FILEMODE_BLOB_EXECUTABLE ELSE FILEMODE_BLOB

\* fs::metadata(&abs_file)
Metadata ==
    /\ pc = "metadata"
    /\ \/ \E is_exec \in BOOLEAN :
            /\ filemode' = filemode_of(is_exec)
            /\ Goto("metadata", "relpath")
       \/ /\ Fail("metadata", "MetadataFailure")
          /\ UNCHANGED filemode
    /\ UNCHANGED <<repo_vars, args, parent, how, blob_oid, rel, new_tree,
                   config, sig, new_commit, tip_seen, heads0, remotes0, runs>>

\* path_relative_to(&abs_file, workdir): the components of the canonical
\* file path below the canonical working directory, or None.
RelPath(paths) ==
    /\ pc = "relpath"
    /\ \/ \E p \in paths :
            /\ rel' = p
            /\ Goto("relpath", "upsert")
       \/ /\ Fail("relpath", "PathNotRelativizable")
          /\ UNCHANGED rel
    /\ UNCHANGED <<repo_vars, args, parent, how, blob_oid, filemode, new_tree,
                   config, sig, new_commit, tip_seen, heads0, remotes0, runs>>

\* Mutant: the tree of HEAD is taken as the base, not the branch's tree.
Upsert_head_tree ==
    /\ pc = "upsert"
    /\ LET r == upsert_path_into_tree(odb, heads[HeadBranch].tree, rel,
                                      blob_oid, filemode)
       IN /\ odb' = r.odb
          /\ new_tree' = r.oid
          /\ IF r.ok
             THEN Goto("upsert", "signature")
             ELSE Fail("upsert", "EmptyPath")
    /\ UNCHANGED <<heads, remotes, origin, args, parent, how, blob_oid,
                   filemode, rel, config, sig, new_commit, tip_seen,
                   heads0, remotes0, runs>>

\* upsert_path_into_tree(&repo, &base_tree, rel, blob_oid, filemode)?, then
\* repo.find_tree(new_tree_oid)?
Upsert ==
    /\ pc = "upsert"
    /\ LET r == upsert_path_into_tree(odb, parent.tree, rel, blob_oid, filemode)
       IN /\ odb' = r.odb
          /\ new_tree' = r.oid
          /\ IF r.ok
             THEN Goto("upsert", "signature")
             ELSE Fail("upsert", "EmptyPath")
    /\ UNCHANGED <<heads, remotes, origin, args, parent, how, blob_oid,
                   filemode, rel, config, sig, new_commit, tip_seen, heads0,
                   remotes0, runs>>

\* The trees of `tree` along `path`, the root first.
RECURSIVE PathTrees(_, _)
PathTrees(tree, path) ==
    IF Len(path) <= 1
    THEN <<tree>>
    ELSE <<tree>> \o PathTrees(get_name(tree, path[1]).oid, Tail(path))

\* upsert_path_into_tree(..)? when a treebuilder, insert or write call of
\* upsert_components fails (`?`): the levels are written deepest first, so
\* a failure at level k leaves the trees below level k written.
UpsertWriteFailure ==
    /\ pc = "upsert"
    /\ LET r == upsert_path_into_tree(odb, parent.tree, rel, blob_oid, filemode)
       IN /\ r.ok
          /\ \E k \in 1..Len(rel) :
               odb' = odb \cup {PathTrees(r.oid, rel)[j] : j \in (k + 1)..Len(rel)}
    /\ Fail("upsert", "ObjectWriteFailure")
    /\ UNCHANGED <<heads, remotes, origin, args, parent, how, blob_oid,
                   filemode, rel, new_tree, config, sig, new_commit, tip_seen,
                   heads0, remotes0, runs>>

(* ------------------------------ identity ------------------------------ *)

ConfigKeys == {"user.name", "user.email"}

\* The configurations of one scope: any subset of the keys may be set.
ScopeConfigs(values) == {[k \in S |-> values[k]] : S \in SUBSET ConfigKeys}

RepoValues == [k \in ConfigKeys |-> IF k = "user.name" THEN "rn" ELSE "re"]
GlobalValues == [k \in ConfigKeys |-> IF k = "user.name" THEN "gn" ELSE "ge"]

Configs == [repo : ScopeConfigs(RepoValues), global : ScopeConfigs(GlobalValues)]

\* cfg.get_string(key) on one scope
get_string(scope, key) ==
    IF key \in DOMAIN scope THEN Some(scope[key]) ELSE None

\* Mutant: the global value wins over the repository's.
git_config_string_global_first(cfg, key) ==
    LET first == get_string(cfg.global, key)
    IN IF first # None THEN first ELSE get_string(cfg.repo, key)

\* repo.config()?.get_string(key).or_else(|_| Config::open_default()?
\* .get_string(key)): the repository's value, else the global one.
git_config_string(cfg, key) ==
    LET first == get_string(cfg.repo, key)
    IN IF first # None THEN first ELSE get_string(cfg.global, key)

git_user_name(cfg) == git_config_string(cfg, "user.name")
git_user_email(cfg) == git_config_string(cfg, "user.email")

\* Mutant: when the identity is missing, the branch resolution created is
\* removed again.
MakeSignature_rollback ==
    /\ pc = "signature"
    /\ \E cfg \in Configs :
        /\ config' = cfg
        /\ IF git_user_name(cfg) = None \/ git_user_email(cfg) = None
           THEN /\ Fail("signature", "IdentityMissing")
                /\ heads' = heads0
                /\ UNCHANGED sig
           ELSE /\ \E now \in 1..MaxTime :
                     /\ sig' = Signature(git_user_name(cfg).val,
                                         git_user_email(cfg).val, now)
                     /\ Goto("signature", "commit")
                /\ UNCHANGED heads
    /\ UNCHANGED <<odb, remotes, origin, args, parent, how, blob_oid, filemode,
                   rel, new_tree, new_commit, tip_seen, heads0, remotes0, runs>>

\* Signature::now(&git_user_name(&repo)?, &git_user_email(&repo)?)?
MakeSignature ==
    /\ pc = "signature"
    /\ \E cfg \in Configs :
        /\ config' = cfg
        /\ IF git_user_name(cfg) = None \/ git_user_email(cfg) = None
           THEN /\ Fail("signature", "IdentityMissing")
                /\ UNCHANGED sig
           ELSE \E now \in 1..MaxTime :
                  /\ sig' = Signature(git_user_name(cfg).val,
                                      git_user_email(cfg).val, now)
                  /\ Goto("signature", "commit")
    /\ UNCHANGED <<repo_vars, args, parent, how, blob_oid, filemode, rel,
                   new_tree, new_commit, tip_seen, heads0, remotes0, runs>>

(* ---------------------------- commit builder -------------------------- *)

\* msg_opt.unwrap_or(&format!("Update {}", rel.display()))
message_of(msg_opt) ==
    IF msg_opt = None THEN Message("Update ", rel) ELSE Message(msg_opt.val, <<>>)

\* Mutant: the commit's parent is HEAD, not the resolved branch tip.
CreateCommit_head_parent ==
    /\ pc = "commit"
    /\ \E msg_opt \in {None, Some("msg")} :
        LET commit == CommitObj(new_tree, <<heads[HeadBranch]>>, sig, sig,
                                message_of(msg_opt))
        IN \/ /\ odb' = odb \cup {commit}
              /\ new_commit' = commit
              /\ tip_seen' = heads[args.branch]
              /\ Goto("commit", "advance")
           \/ /\ Fail("commit", "ObjectWriteFailure")
              /\ UNCHANGED <<odb, new_commit, tip_seen>>
    /\ UNCHANGED <<heads, remotes, origin, args, parent, how, blob_oid,
                   filemode, rel, new_tree, config, sig,
                   heads0, remotes0, runs>>

\* Mutant: the commit is written whatever the branch ref holds, and the ref
\* is then overwritten.
CreateCommit_no_tip_check ==
    /\ pc = "commit"
    /\ \E msg_opt \in {None, Some("msg")} :
        LET commit == CommitObj(new_tree, <<parent.commit>>, sig, sig,
                                message_of(msg_opt))
        IN \/ /\ odb' = odb \cup {commit}
              /\ new_commit' = commit
              /\ tip_seen' = heads[args.branch]
              /\ Goto("commit", "advance")
           \/ /\ Fail("commit", "ObjectWriteFailure")
              /\ UNCHANGED <<odb, new_commit, tip_seen>>
    /\ UNCHANGED <<heads, remotes, origin, args, parent, how, blob_oid,
                   filemode, rel, new_tree, config, sig,
                   heads0, remotes0, runs>>

\* Mutant: the commit is written with no parent, whatever the branch holds.
CreateCommit_orphan ==
    /\ pc = "commit"
    /\ \E msg_opt \in {None, Some("msg")} :
        LET commit == CommitObj(new_tree, <<>>, sig, sig, message_of(msg_opt))
        IN \/ /\ odb' = odb \cup {commit}
              /\ new_commit' = commit
              /\ tip_seen' = heads[args.branch]
              /\ Goto("commit", "advance")
           \/ /\ Fail("commit", "ObjectWriteFailure")
              /\ UNCHANGED <<odb, new_commit, tip_seen>>
    /\ UNCHANGED <<heads, remotes, origin, args, parent, how, blob_oid,
                   filemode, rel, new_tree, config, sig,
                   heads0, remotes0, runs>>

\* repo.commit(Some(&refname), &sig, &sig, message, &new_tree,
\* &[&parent_commit]), first half: the branch ref is read, and when it exists
\* its target must be the first parent; then the commit object is written.
CreateCommit ==
    /\ pc = "commit"
    /\ \E msg_opt \in {None, Some("msg")} :
        LET commit == CommitObj(new_tree, <<parent.commit>>, sig, sig,
                                message_of(msg_opt))
            tip == heads[args.branch]
        IN IF tip # None /\ tip # parent.commit
           THEN /\ Fail("commit", "RefModified")
                /\ UNCHANGED <<odb, new_commit, tip_seen>>
           ELSE \/ /\ odb' = odb \cup {commit}
                   /\ new_commit' = commit
                   /\ tip_seen' = tip
                   /\ Goto("commit", "advance")
                \/ /\ Fail("commit", "ObjectWriteFailure")
                   /\ UNCHANGED <<odb, new_commit, tip_seen>>
    /\ UNCHANGED <<heads, remotes, origin, args, parent, how, blob_oid,
                   filemode, rel, new_tree, config, sig,
                   heads0, remotes0, runs>>

\* repo.commit, second half: refs/heads/<branch> is set to the new commit,
\* provided it still has the target read in the first half.
AdvanceRef ==
    /\ pc = "advance"
    /\ IF heads[args.branch] = tip_seen
       THEN \/ /\ heads' = [heads EXCEPT ![args.branch] = new_commit]
               /\ Goto("advance", IF args.push THEN "push" ELSE "done")
            \/ /\ Fail("advance", "RefUpdateFailure")
               /\ UNCHANGED heads
       ELSE /\ Fail("advance", "RefModified")
            /\ UNCHANGED heads
    /\ UNCHANGED <<odb, remotes, origin, args, local_vars,
                   heads0, remotes0, runs>>

\* Mutant: a failed push is tried again.
Push_retry ==
    /\ pc = "push"
    /\ \/ /\ origin' = [origin EXCEPT ![args.branch] = heads[args.branch]]
          /\ remotes' = [remotes EXCEPT ![args.branch] = heads[args.branch]]
          /\ Goto("push", "done")
       \/ /\ Goto("push", "push")
          /\ UNCHANGED <<origin, remotes>>
    /\ UNCHANGED <<odb, heads, args, local_vars, heads0, remotes0, runs>>

\* Mutant: a failed push puts the branch back on the parent commit.
Push_rollback ==
    /\ pc = "push"
    /\ \/ /\ origin' = [origin EXCEPT ![args.branch] = heads[args.branch]]
          /\ remotes' = [remotes EXCEPT ![args.branch] = heads[args.branch]]
          /\ Goto("push", "done")
          /\ UNCHANGED heads
       \/ /\ Fail("push", "PushFailure")
          /\ heads' = [heads EXCEPT ![args.branch] = parent.commit]
          /\ UNCHANGED <<origin, remotes>>
    /\ UNCHANGED <<odb, args, local_vars, heads0, remotes0, runs>>

\* git -C <workdir> push origin <branch>:<branch>: pushed; or the command
\* could not be run or exited nonzero.  Nothing here touches refs/heads.
Push ==
    /\ pc = "push"
    /\ \/ /\ origin' = [origin EXCEPT ![args.branch] = heads[args.branch]]
          /\ remotes' = [remotes EXCEPT ![args.branch] = heads[args.branch]]
          /\ Goto("push", "done")
       \/ /\ Fail("push", "PushFailure")
          /\ UNCHANGED <<origin, remotes>>
    /\ UNCHANGED <<odb, heads, args, local_vars, heads0, remotes0, runs>>

(* ---------------------------- specification --------------------------- *)

\* The repository-relative paths of the run: a file at the root, and a file
\* in a directory (which the base tree may or may not have).
RunPaths == {<<1>>, <<2, 1>>}

Next ==
    \/ OpenRepo
    \/ CheckWorkdir
    \/ CheckFile
    \/ ResolveLocal
    \/ Fetch
    \/ ResolveRemote
    \/ ConfirmCreate
    \/ CreateFromHead
    \/ WriteBlob
    \/ Metadata
    \/ RelPath(RunPaths)
    \/ Upsert
    \/ UpsertWriteFailure
    \/ MakeSignature
    \/ CreateCommit
    \/ AdvanceRef
    \/ Push

Spec == Init /\ [][Next]_vars

(* ------------------------- an external writer ------------------------- *)

SigExt == Signature("ext", "ext", 0)

\* The commit another process makes on top of commit c.
ExtCommit(c) == CommitObj(c.tree, <<c>>, SigExt, SigExt, Message("ext", <<>>))

\* Another process commits to the target branch while the run is under way
\* (once): the branch ref moves to a commit the run has not seen.
ExternalCommit ==
    /\ pc \notin {"done", "failed"}
    /\ heads[args.branch] # None
    /\ \A o \in odb : o.kind = "commit" => o.author # SigExt
    /\ heads' = [heads EXCEPT ![args.branch] = ExtCommit(heads[args.branch])]
    /\ odb' = odb \cup {ExtCommit(heads[args.branch])}
    /\ UNCHANGED <<remotes, origin, args, pc, err, trace, local_vars, heads0,
                   remotes0, runs>>

RaceNext == Next \/ ExternalCommit

RaceSpec == Init /\ [][RaceNext]_vars

(* ----------------------- one invocation after another ---------------- *)

\* Invocations in a sequence.
MaxRuns == 2

\* The process has exited; bgit is run again on the repository as the last
\* run left it, with any command line.
NextInvocation ==
    /\ pc \in {"done", "failed"}
    /\ runs < MaxRuns
    /\ runs' = runs + 1
    /\ args' \in [branch : Branches, track_remote : BOOLEAN, push : BOOLEAN]
    /\ pc' = "open"
    /\ err' = ""
    /\ trace' = <<>>
    /\ parent' = None
    /\ how' = ""
    /\ blob_oid' = None
    /\ filemode' = 0
    /\ rel' = <<>>
    /\ new_tree' = None
    /\ config' = None
    /\ sig' = None
    /\ new_commit' = None
    /\ tip_seen' = None
    /\ heads0' = heads
    /\ remotes0' = remotes
    /\ UNCHANGED repo_vars

\* The inputs of the runs of a sequence: one file (content, mode), the
\* repository's identity or none at all, the first clock value, the caller's
\* message.  The command line, the path, the prompt's answer and every
\* failure stay free.
FixedInputs ==
    /\ blob_oid \in {None, BlobObj(<<7>>)}
    /\ filemode \in {0, FILEMODE_BLOB}
    /\ config \in {None,
                    [repo |-> RepoValues, global |-> [k \in {} |-> ""]],
                    [repo |-> [k \in {} |-> ""], global |-> [k \in {} |-> ""]]}
    /\ sig \in {None, Signature("rn", "re", 1)}
    /\ new_commit # None => new_commit.message.text = "msg"

SeqNext == (Next /\ FixedInputs') \/ NextInvocation

\* The sequence starts on a repository whose only branch, local or remote-
\* tracking, is the one checked out; the others come to exist through the
\* runs.
SeqInit ==
    /\ Init
    /\ \A b \in Branches \ {HeadBranch} : heads[b] = None /\ remotes[b] = None

SeqSpec == SeqInit /\ [][SeqNext]_vars

(* ------------------------ the tree upsert alone ----------------------- *)

\* Every path of at most MaxPathLen components, the empty path included.
Paths == UNION {[1..n -> Names] : n \in 0..MaxPathLen}

\* The file entry a base tree may hold: an executable file whose content is
\* one of the contents a run may write.
BaseLeaves == {[mode |-> FILEMODE_BLOB_EXECUTABLE, oid |-> BlobObj(<<7>>)]}

\* The trees whose entries are drawn from `options`; any name may be absent.
TreesOver(options) ==
    {tb_write([n \in S |-> f[n]]) : S \in SUBSET Names, f \in [Names -> options]}

\* Directories of files.
FlatTrees == TreesOver(BaseLeaves)

\* Base trees: the empty tree, and every tree of files and of non-empty
\* directories of files.
BaseTrees ==
    TreesOver(BaseLeaves \cup
              {[mode |-> FILEMODE_TREE, oid |-> t] : t \in FlatTrees \ {EmptyTree}})

\* The run just after ensure_branch_base returned the tip of an existing
\* branch, whose tree is any base tree.
UpsertInit ==
    /\ \E t \in BaseTrees :
        LET tip == CommitObj(t, <<>>, Sig0, Sig0, Message("init", <<>>))
        IN /\ heads = [b \in Branches |-> IF b = HeadBranch THEN tip ELSE None]
           /\ odb = Closure(tip)
           /\ parent = [commit |-> tip, tree |-> t]
    /\ remotes = [b \in Branches |-> None]
    /\ origin = [b \in Branches |-> None]
    /\ args = [branch |-> HeadBranch, track_remote |-> FALSE, push |-> FALSE]
    /\ pc = "blob"
    /\ err = ""
    /\ trace = <<"open", "workdir", "exists", "local">>
    /\ how = "local"
    /\ blob_oid = None
    /\ filemode = 0
    /\ rel = <<>>
    /\ new_tree = None
    /\ config = None
    /\ sig = None
    /\ new_commit = None
    /\ tip_seen = None
    /\ heads0 = heads
    /\ remotes0 = remotes
    /\ runs = 1

UpsertNext ==
    \/ WriteBlob
    \/ Metadata
    \/ RelPath(Paths)
    \/ Upsert

UpsertSpec == UpsertInit /\ [][UpsertNext]_vars

(* ------------------------- reading a tree back ------------------------ *)

Range(seq) == {seq[i] : i \in 1..Len(seq)}

\* The tree an entry of `tree` named `name` points to, when the entry is a
\* tree; None otherwise.
SubtreeAt(tree, name) ==
    IF tree = None \/ get_name(tree, name) = None
    THEN None
    ELSE IF get_name(tree, name).oid.kind = "tree"
    THEN get_name(tree, name).oid
    ELSE None

\* The upsert has returned a tree for a non-empty path.
Upserted == new_tree # None /\ Len(rel) >= 1

\* Every entry of `base` off the path is an entry of `result`, at this level
\* and at every level the path descends through.
RECURSIVE SiblingsKept(_, _, _)
SiblingsKept(base, result, path) ==
    /\ result # None
    /\ base # None =>
         \A i \in 1..Len(base.entries) :
             base.entries[i].name # path[1] =>
                 get_name(result, base.entries[i].name) = base.entries[i]
    /\ Len(path) > 1 =>
         SiblingsKept(SubtreeAt(base, path[1]), SubtreeAt(result, path[1]),
                      Tail(path))

\* C1: sibling invariance.  After an upsert of a non-empty path, at every
\* level the path visits, each entry of the base tree whose name is not the
\* path's component at that level is in the rebuilt tree with the same name,
\* mode and target.
C1_SiblingInvariance ==
    Upserted => SiblingsKept(parent.tree, new_tree, rel)

\* A three-component path through an existing directory, with an entry off
\* the path at the root and in that directory.
C1_Witness ==
    /\ Upserted
    /\ Len(rel) = 3
    /\ \E n \in Names : n # rel[1] /\ get_name(parent.tree, n) # None
    /\ SubtreeAt(parent.tree, rel[1]) # None
    /\ \E n \in Names :
         n # rel[2] /\ get_name(SubtreeAt(parent.tree, rel[1]), n) # None

\* The path read from `tree`: directory entries down to a leaf with the
\* given target and mode.
RECURSIVE ReadsBack(_, _, _, _, _)
ReadsBack(store, tree, path, target, mode) ==
    /\ tree \in store
    /\ tree.kind = "tree"
    /\ get_name(tree, path[1]) # None
    /\ IF Len(path) = 1
       THEN /\ get_name(tree, path[1]).oid = target
            /\ get_name(tree, path[1]).mode = mode
       ELSE /\ get_name(tree, path[1]).mode = FILEMODE_TREE
            /\ ReadsBack(store, get_name(tree, path[1]).oid, Tail(path),
                         target, mode)

\* C2: round trip.  After an upsert of a non-empty path, the path read from
\* the resulting tree passes through directory entries only and ends at an
\* entry whose target is the blob written, a readable blob, and whose mode
\* is the caller's.
C2_RoundTrip ==
    Upserted =>
        /\ blob_oid \in odb
        /\ blob_oid.kind = "blob"
        /\ ReadsBack(odb, new_tree, rel, blob_oid, filemode)

\* Empty content written below a name that was a file in the base tree.
C2_Witness ==
    /\ Upserted
    /\ Len(rel) >= 2
    /\ blob_oid = BlobObj(<<>>)
    /\ filemode = FILEMODE_BLOB_EXECUTABLE
    /\ get_name(parent.tree, rel[1]) # None
    /\ SubtreeAt(parent.tree, rel[1]) = None

\* The chain of directories a path names, ending at the leaf.
RECURSIVE Chain(_, _, _)
Chain(path, target, mode) ==
    IF Len(path) = 1
    THEN TreeObj(<<Entry(path[1], mode, target)>>)
    ELSE TreeObj(<<Entry(path[1], FILEMODE_TREE, Chain(Tail(path), target, mode))>>)

\* C4: an upsert of a path of two or more components into the empty tree
\* yields exactly the chain: one directory entry per level, then the leaf,
\* and nothing else; every tree of the chain is in the store.
C4_EmptyBaseChain ==
    (Upserted /\ parent.tree = EmptyTree /\ Len(rel) >= 2) =>
        /\ new_tree = Chain(rel, blob_oid, filemode)
        /\ Closure(new_tree) \subseteq odb

C4_Witness ==
    /\ Upserted
    /\ parent.tree = EmptyTree
    /\ Len(rel) = 3

(* ------------------------- reading the run back ----------------------- *)

\* Step l was the last one executed and it failed.
StepFailed(l) == pc = "failed" /\ Len(trace) > 0 /\ trace[Len(trace)] = l

\* Step l was executed and did not fail.
Did(l) == l \in Range(trace) /\ ~StepFailed(l)

\* The commits of the repository and of origin before the run.
OldCommits == {Commit0, Commit1, CommitX}

CommitsIn(store) == {o \in store : o.kind = "commit"}

\* Stores that differ in everything but the objects the base tree and the
\* blob need.
StoresFor(base, blob) ==
    {Closure(base) \cup {blob},
     Closure(base) \cup {blob} \cup Closure(CommitX) \cup {EmptyTree, OldBlob},
     odb \cup Closure(Commit1) \cup {BlobObj(<<>>), BlobObj(<<7>>)}}

C5_CommitParentage ==
    /\ (how # "" /\ ~Did("advance")) => heads[args.branch] = parent.commit
    /\ how = "local" => parent.commit = heads0[args.branch]
    /\ how = "remote" =>
         /\ heads0[args.branch] = None
         /\ ~Did("push") => parent.commit = remotes[args.branch]
    /\ how = "head" =>
         /\ heads0[args.branch] = None
         /\ parent.commit = heads0[HeadBranch]
    /\ CommitsIn(odb) \subseteq OldCommits \cup {new_commit}
    /\ new_commit # None =>
         /\ new_commit.parents = <<parent.commit>>
         /\ new_commit.tree = new_tree
         /\ parent.tree = parent.commit.tree
         /\ new_commit.tree =
                upsert_path_into_tree(odb, parent.commit.tree, rel, blob_oid,
                                      filemode).oid
         /\ ReadsBack(odb, new_commit.tree, rel, blob_oid, filemode)
         /\ SiblingsKept(parent.commit.tree, new_commit.tree, rel)
    /\ pc = "done" =>
         /\ new_commit \in CommitsIn(odb)
         /\ heads[args.branch] = new_commit
         /\ \A b \in Branches \ {args.branch} : heads[b] = heads0[b]

\* A run that created the branch from HEAD and succeeded.
C5_Witness == pc = "done" /\ how = "head" /\ ~args.push

Steps ==
    {"open", "workdir", "exists", "local", "fetch", "remote", "confirm",
     "create", "blob", "metadata", "relpath", "upsert", "signature", "commit",
     "advance", "push"}

\* The stage of the pipeline a step belongs to: 1 branch resolution, 2 the
\* writes of blob and trees, 3 commit creation, 4 ref advancement, 5 push.
Stage(l) ==
    CASE l \in {"open", "workdir", "exists"} -> 0
      [] l \in {"local", "fetch", "remote", "confirm", "create"} -> 1
      [] l \in {"blob", "metadata", "relpath", "upsert", "signature"} -> 2
      [] l = "commit" -> 3
      [] l = "advance" -> 4
      [] l = "push" -> 5

\* The step a stage cannot start without.
Needs(l) ==
    CASE l = "blob" -> {"local"}
      [] l = "upsert" -> {"blob"}
      [] l = "commit" -> {"upsert"}
      [] l = "advance" -> {"commit"}
      [] l = "push" -> {"advance"}
      [] OTHER -> {}

\* C6: pipeline ordering.  Every step of a run is taken from a state with no
\* error and not yet finished, executes one statement that was not executed
\* before (no retry), of a stage no earlier than every step before it, and
\* only after the stage before it has run: resolution, writes of blob and
\* trees, commit creation, ref advancement, push.  (A fetch that fails is
\* not a failed step: ensure_branch_base discards its status.)
C6_PipelineOrder ==
    [][/\ err = ""
       /\ pc \notin {"done", "failed"}
       /\ \E l \in Steps :
            /\ trace' = Append(trace, l)
            /\ l \notin Range(trace)
            /\ \A k \in Range(trace) : Stage(k) <= Stage(l)
            /\ Stage(l) >= 3 => \A k \in Range(trace) : Stage(k) < Stage(l)
            /\ Needs(l) \subseteq Range(trace)
            /\ l = "blob" => how # ""]_vars

\* A run through every stage: fetch, prompt, branch creation, commit, push.
C6_Witness ==
    /\ pc = "done"
    /\ {"fetch", "confirm", "create", "commit", "advance", "push"}
           \subseteq Range(trace)

\* C7: LocalExists wins.  When the branch has a local ref, resolution
\* returns that ref's commit and its tree, with or without --track-remote
\* and whatever refs/remotes/origin holds, and runs no fetch, no remote
\* lookup, no prompt and no branch creation; no local ref changes before the
\* ref advancement and no remote-tracking ref before the push.
C7_LocalExistsFirst ==
    (heads0[args.branch] # None /\ "local" \in Range(trace)) =>
        /\ how = "local"
        /\ parent = [commit |-> heads0[args.branch],
                     tree |-> heads0[args.branch].tree]
        /\ Range(trace) \cap {"fetch", "remote", "confirm", "create"} = {}
        /\ ~Did("advance") => heads = heads0
        /\ ~Did("push") => remotes = remotes0

\* The branch exists locally and as a remote-tracking ref at another
\* commit, and --track-remote is given.
C7_Witness ==
    /\ pc = "blob"
    /\ how = "local"
    /\ args.track_remote
    /\ remotes[args.branch] = CommitX
    /\ heads[args.branch] = Commit0

\* C8: RemoteTracking.  When the remote-tracking ref of the branch exists at
\* the lookup, resolution returns its commit and tree, the local branch ref
\* has been created on that commit and no other ref changed, and the prompt
\* is never shown; the lookup happens only after the local lookup failed and
\* a fetch ran; without --track-remote there is no fetch and no lookup.
C8_RemoteTracking ==
    /\ ("remote" \in Range(trace) /\ ~Did("push")
            /\ remotes[args.branch] # None) =>
         /\ how = "remote"
         /\ heads0[args.branch] = None
         /\ parent = [commit |-> remotes[args.branch],
                      tree |-> remotes[args.branch].tree]
         /\ ~Did("advance") =>
                heads = [heads0 EXCEPT ![args.branch] = remotes[args.branch]]
         /\ "confirm" \notin Range(trace)
         /\ "create" \notin Range(trace)
    /\ "remote" \in Range(trace) =>
         args.track_remote /\ "fetch" \in Range(trace)
                           /\ heads0[args.branch] = None
    /\ ~args.track_remote =>
         /\ Range(trace) \cap {"fetch", "remote"} = {}
         /\ how # "remote"

\* The branch was created from a remote-tracking ref that the fetch of this
\* run brought in.
C8_Witness ==
    /\ pc = "blob"
    /\ how = "remote"
    /\ heads[args.branch] = CommitX
    /\ CommitX \notin Closure(Commit1)
    /\ heads0[args.branch] = None

\* C9 as stated: a run that ends with BranchNotFound has created or moved
\* no ref, local or remote-tracking, and written no commit.
C9_Original ==
    err = "BranchNotFound" =>
        /\ heads = heads0
        /\ remotes = remotes0
        /\ new_commit = None
        /\ CommitsIn(odb) \subseteq OldCommits

\* C9, amended: NeedsCreate declined.  A run ends with BranchNotFound only
\* at the prompt, for a branch with no local ref and, under --track-remote,
\* no remote-tracking ref after the fetch; then no local branch ref was
\* created or moved and the run wrote no commit.  (The fetch that ran before
\* the prompt may have moved remote-tracking refs.)
C9_CreateDeclined ==
    err = "BranchNotFound" =>
        /\ StepFailed("confirm")
        /\ heads0[args.branch] = None
        /\ args.track_remote =>
             "remote" \in Range(trace) /\ remotes[args.branch] = None
        /\ ~args.track_remote => remotes = remotes0
        /\ heads = heads0
        /\ new_commit = None
        /\ CommitsIn(odb) \subseteq OldCommits

\* Declined after --track-remote found no remote-tracking ref.
C9_Witness ==
    /\ err = "BranchNotFound"
    /\ args.track_remote
    /\ "fetch" \in Range(trace)

\* C10: push failure after the commit.  A run that ends with PushFailure
\* asked for the push, wrote the commit and left the branch ref on it, the
\* other refs as they were; and no step taken at the push changes a local
\* ref.
C10_PushFailureKeepsCommit ==
    /\ [](err = "PushFailure" =>
            /\ StepFailed("push")
            /\ args.push
            /\ new_commit \in CommitsIn(odb)
            /\ heads = [heads0 EXCEPT ![args.branch] = new_commit])
    /\ [][pc = "push" => heads' = heads]_vars

\* The push failed after a commit on a branch this run created from HEAD.
C10_Witness == err = "PushFailure" /\ how = "head"

(* --------------------------- what a run leaves ------------------------ *)

\* The local branches that exist now and did not when the run started.
NewLocalRefs == {b \in Branches : heads0[b] = None /\ heads[b] # None}

InitialObjects ==
    UNION {Closure(heads0[b]) \cup Closure(remotes0[b]) : b \in Branches}

\* Nothing of ensure_branch_base has run: no ref lookup, no fetch, no prompt,
\* no branch creation; the refs and the store are as the run found them.
Untouched ==
    /\ Range(trace) \cap {"local", "fetch", "remote", "confirm", "create"} = {}
    /\ how = ""
    /\ heads = heads0
    /\ remotes = remotes0
    /\ odb = InitialObjects
    /\ NoLocals

\* C12: a bare repository.  A run ends with BareRepositoryUnsupported only
\* at repo.workdir(), the step after the repository was opened, and then
\* no step of branch resolution has run (no ref lookup, no fetch, no prompt,
\* no branch creation), no ref has changed and no object was written.
C12_BareFailsFirst ==
    err = "BareRepositoryUnsupported" =>
        /\ trace = <<"open", "workdir">>
        /\ pc = "failed"
        /\ Untouched

\* A bare repository, in a run that would have fetched and asked.
C12_Witness ==
    /\ err = "BareRepositoryUnsupported"
    /\ args.track_remote
    /\ heads0[args.branch] = None
    /\ remotes0[args.branch] = None
    /\ origin[args.branch] # None

(* -------------------- the run and an external writer ------------------ *)

\* The external writer moved the target branch after resolution returned
\* and before the run advanced the ref: its commit sits on the resolved
\* parent.
MovedSinceResolution == how # "" /\ ExtCommit(parent.commit) \in odb

\* C13 as stated: the ref move makes no check, so a run that reaches
\* repo.commit after the external writer moved the branch is not stopped by
\* it.
C13_Original ==
    (MovedSinceResolution /\ "commit" \in Range(trace)) => err # "RefModified"

\* C13, amended: repo.commit checks the branch ref.  When an external
\* writer moved the target branch between resolution and the ref
\* advancement, the run ends with an error at repo.commit (the branch tip is
\* not the first parent, or the ref changed before it was written), the
\* branch ref keeps the external writer's commit, and the run's commit, if
\* written, is on no ref; at every step, of the run or of the external
\* writer, the former target of a local ref stays reachable from the ref: no
\* update is lost.
C13_NoLostUpdate ==
    /\ [](MovedSinceResolution =>
            /\ ~Did("advance")
            /\ heads[args.branch] = ExtCommit(parent.commit)
            /\ (pc \in {"advance", "push", "done"}) => new_commit # None
            /\ ("commit" \in Range(trace) /\ new_commit = None) =>
                   err = "RefModified" /\ StepFailed("commit")
            /\ "advance" \in Range(trace) =>
                   err = "RefModified" /\ StepFailed("advance")
            /\ pc # "done")
    /\ [][\A b \in Branches :
             heads[b] # None =>
                 heads'[b] # None /\ heads[b] \in Closure(heads'[b])]_vars

\* The external writer committed between the run's two halves of
\* repo.commit, on a branch the run had created from HEAD.
C13_Witness ==
    /\ MovedSinceResolution
    /\ how = "head"
    /\ err = "RefModified"
    /\ StepFailed("advance")
    /\ new_commit \in odb

(* ----------------------------- a failed fetch ------------------------- *)

\* The fetch of this run brought nothing in although origin is ahead of the
\* remote-tracking ref of the checked-out branch: it failed.  (A run that
\* fetches has a target other than that branch, so its push, if any, leaves
\* that remote-tracking ref alone.)
FetchFailed ==
    /\ "fetch" \in Range(trace)
    /\ origin[HeadBranch] # remotes0[HeadBranch]
    /\ remotes[HeadBranch] = remotes0[HeadBranch]

\* The run is past the remote lookup.
LookedUpRemote == "remote" \in Range(trace)

\* C14 as stated: after a failed fetch the remote lookup behaves as if the
\* branch had no remote-tracking ref: no branch is created from one, and
\* resolution goes on to the prompt.
C14_Original ==
    (FetchFailed /\ LookedUpRemote) =>
        /\ how # "remote"
        /\ heads[args.branch] = None \/ "create" \in Range(trace)
        /\ pc = "confirm" \/ "confirm" \in Range(trace)

\* C14, amended: a failed fetch.  The failure raises no error and changes
\* no ref; the remote lookup then reads the remote-tracking ref as it was
\* before the fetch.  If that ref is absent, resolution goes on to the
\* prompt and creates no branch from a remote-tracking ref; if it exists (it
\* was fetched earlier), the local branch is created on its commit, which
\* resolution returns, without a prompt.
C14_FailedFetch ==
    FetchFailed =>
        /\ ~StepFailed("fetch")
        /\ ~StepFailed("remote")
        /\ ~Did("push") => remotes = remotes0
        /\ pc = "remote" => heads = heads0 /\ err = ""
        /\ (LookedUpRemote /\ remotes0[args.branch] = None) =>
             /\ how # "remote"
             /\ pc = "confirm" \/ "confirm" \in Range(trace)
             /\ heads[args.branch] # None => "create" \in Range(trace)
        /\ (LookedUpRemote /\ remotes0[args.branch] # None) =>
             /\ how = "remote"
             /\ parent = [commit |-> remotes0[args.branch],
                          tree |-> remotes0[args.branch].tree]
             /\ "confirm" \notin Range(trace)
             /\ ~Did("advance") =>
                    heads = [heads0 EXCEPT ![args.branch] = remotes0[args.branch]]

\* The fetch failed, the branch was created from the remote-tracking ref
\* of an earlier fetch, and the run committed on it.
C14_Witness ==
    /\ FetchFailed
    /\ how = "remote"
    /\ remotes0[args.branch] = CommitX
    /\ pc = "done"

(* ---------------------------- name collision -------------------------- *)

\* The level of `base` at which a directory component of `path` names an
\* entry that is not a tree, as <<base level, result level, rest of path>>;
\* None when the path meets no such entry.
RECURSIVE CollisionLevel(_, _, _)
CollisionLevel(base, result, path) ==
    IF Len(path) < 2 \/ base = None \/ result = None
    THEN None
    ELSE IF get_name(base, path[1]) = None
    THEN None
    ELSE IF get_name(base, path[1]).oid.kind # "tree"
    THEN [base |-> base, result |-> result, path |-> path]
    ELSE CollisionLevel(SubtreeAt(base, path[1]), SubtreeAt(result, path[1]),
                        Tail(path))

\* C15: name collision.  When a directory component of the path names an
\* entry of the base tree that is a file, the upsert succeeds, and at that
\* level the resulting tree has under that name a directory entry whose
\* tree is exactly the chain of the remaining components down to the leaf
\* (built from no base), in place of the file entry; the level has the same
\* names as before and every other entry is as it was.
C15_NameCollision ==
    /\ ("upsert" \in Range(trace) /\ Len(rel) >= 1) => Did("upsert") /\ Upserted
    /\ Upserted =>
         LET c == CollisionLevel(parent.tree, new_tree, rel)
             chain == Chain(Tail(c.path), blob_oid, filemode)
         IN c # None =>
              /\ get_name(c.result, c.path[1]) =
                     Entry(c.path[1], FILEMODE_TREE, chain)
              /\ Closure(chain) \subseteq odb
              /\ Len(c.result.entries) = Len(c.base.entries)
              /\ \A i \in 1..Len(c.base.entries) :
                     c.base.entries[i].name # c.path[1] =>
                         c.result.entries[i] = c.base.entries[i]

\* The collision is one level down: the second component names a file of
\* an existing directory that holds another entry too.
C15_Witness ==
    /\ Upserted
    /\ Len(rel) = 3
    /\ CollisionLevel(parent.tree, new_tree, rel) # None
    /\ CollisionLevel(parent.tree, new_tree, rel).path = Tail(rel)
    /\ Len(CollisionLevel(parent.tree, new_tree, rel).base.entries) = 2

(* ------------------------------- identity ----------------------------- *)

\* The value of a key the claim expects: the repository's when the
\* repository scope sets the key, else the global one.
Expected(key) ==
    IF key \in DOMAIN config.repo THEN RepoValues[key] ELSE GlobalValues[key]

\* A key no scope sets.
Unset(key) == key \notin DOMAIN config.repo /\ key \notin DOMAIN config.global

\* C16: identity.  Once the configuration has been read: the run fails with
\* IdentityMissing exactly when the name or the email is set at neither
\* scope, and then it has written no commit and the branch ref is where
\* resolution left it; otherwise the signature's name and email are each the
\* repository's value when the repository scope sets it and the global value
\* only when it does not; and the commit written has that signature as
\* author and as committer.
C16_Identity ==
    /\ err = "IdentityMissing" => config # None /\ StepFailed("signature")
    /\ config # None =>
         /\ (\E k \in ConfigKeys : Unset(k)) <=> err = "IdentityMissing"
         /\ err = "IdentityMissing" =>
              /\ sig = None
              /\ new_commit = None
              /\ CommitsIn(odb) \subseteq OldCommits
              /\ "commit" \notin Range(trace)
              /\ heads[args.branch] = parent.commit
              /\ \A b \in Branches \ {args.branch} : heads[b] = heads0[b]
         /\ err # "IdentityMissing" =>
              /\ sig # None
              /\ sig.name = Expected("user.name")
              /\ sig.email = Expected("user.email")
    /\ new_commit # None =>
         /\ new_commit.author = sig
         /\ new_commit.committer = new_commit.author

\* A commit whose name is the repository's although the global scope sets
\* one too, and whose email is the global one.
C16_Witness ==
    /\ pc = "done"
    /\ "user.name" \in DOMAIN config.repo
    /\ "user.name" \in DOMAIN config.global
    /\ "user.email" \notin DOMAIN config.repo
    /\ new_commit.author.email = "ge"

(* ------------------------ a sequence of invocations ------------------- *)

\* The commits reached from c by following first and only parents.
RECURSIVE Ancestry(_)
Ancestry(c) ==
    IF c = None
    THEN {}
    ELSE {c} \cup (IF Len(c.parents) = 1 THEN Ancestry(c.parents[1]) ELSE {})

\* C17: no history rewriting.  Over a sequence of invocations with no
\* external writer, a local branch ref that holds a commit changes only to a
\* commit whose single parent is the commit it held, and is never deleted;
\* so every commit a branch ref has pointed to is in the single-parent
\* ancestry of its current tip: the tip the branch had when the current
\* invocation started, and the tip the checked-out branch had before the
\* first invocation.
C17_NoHistoryRewriting ==
    /\ [][\A b \in Branches :
             heads[b] # None =>
                 /\ heads'[b] # None
                 /\ heads'[b] # heads[b] => heads'[b].parents = <<heads[b]>>]_vars
    /\ [](\A b \in Branches :
             /\ heads0[b] # None => heads0[b] \in Ancestry(heads[b])
             /\ heads[b] # None => Ancestry(heads[b]) \subseteq odb)
    /\ [](Commit1 \in Ancestry(heads[HeadBranch]))

\* The second invocation committed on the branch the first one had created
\* and committed on: the branch ref has held three commits.
C17_Witness ==
    /\ runs = 2
    /\ pc = "done"
    /\ args.branch # HeadBranch
    /\ how = "local"
    /\ heads0[args.branch] \notin OldCommits
    /\ Cardinality(Ancestry(heads[args.branch])) >= 4

(* ------------------ failures between resolution and commit ------------ *)

\* The statements between the return of ensure_branch_base and repo.commit.
BeforeCommit == {"blob", "metadata", "relpath", "upsert", "signature"}

\* C18: a failure between resolution and commit.  When the run fails at a
\* step after ensure_branch_base returned and before repo.commit (reading
\* the parent, writing the blob, the file's metadata, the relative path, the
\* tree upsert, the identity), no commit was written, the branch ref holds
\* exactly the commit resolution returned and no other local ref changed; a
\* branch that resolution created in this run is still there.
C18_FailureBeforeCommit ==
    \A l \in BeforeCommit :
        StepFailed(l) =>
            /\ how # ""
            /\ new_commit = None
            /\ "commit" \notin Range(trace)
            /\ CommitsIn(odb) \subseteq OldCommits
            /\ heads[args.branch] = parent.commit
            /\ heads = [heads0 EXCEPT ![args.branch] = parent.commit]
            /\ how = "local" => heads = heads0
            /\ how \in {"remote", "head"} =>
                   heads0[args.branch] = None /\ heads[args.branch] # None

\* The identity is missing after resolution created the branch from HEAD
\* and the trees were written.
C18_Witness ==
    /\ StepFailed("signature")
    /\ how = "head"
    /\ new_tree \in odb
    /\ heads0[args.branch] = None

\* C19: a missing file.  A run ends with FileNotFound only at the
\* existence check, the third statement, before ensure_branch_base is
\* called: no ref was looked up, no fetch ran, the prompt was not shown, no
\* ref was created or moved and no object was written.
C19_MissingFileFirst ==
    err = "FileNotFound" =>
        /\ trace = <<"open", "workdir", "exists">>
        /\ StepFailed("exists")
        /\ Untouched

\* The file is missing in a run that would have fetched a branch that
\* exists on origin only.
C19_Witness ==
    /\ err = "FileNotFound"
    /\ args.track_remote
    /\ args.push
    /\ heads0[args.branch] = None
    /\ remotes0[args.branch] = None
    /\ origin[args.branch] = CommitX

(* ------------------------------ idempotence --------------------------- *)

\* The upsert of the run's inputs applied to `tree`, in the run's store.
Again(tree) == upsert_path_into_tree(odb, tree, rel, blob_oid, filemode)

\* The base tree already holds the run's blob with the run's mode at the
\* path, below directory entries only.
AlreadyThere == ReadsBack(odb, parent.tree, rel, blob_oid, filemode)

\* C20: idempotence.  The upsert applied to its own result, with the same
\* path, blob and mode, returns that result and writes no object; and when
\* the base tree already has the blob with that mode at the path, reached
\* through directory entries, the upsert returns the base tree itself: no
\* level gains or changes an entry.
C20_Idempotence ==
    Upserted =>
        /\ Again(new_tree) = Ok(new_tree, odb)
        /\ AlreadyThere => new_tree = parent.tree

\* The file is already in a directory of the base tree, next to another
\* entry, with the content and the mode of the run.
C20_Witness ==
    /\ Upserted
    /\ Len(rel) = 2
    /\ AlreadyThere
    /\ Len(SubtreeAt(parent.tree, rel[1]).entries) = 2
    /\ Len(parent.tree.entries) = 2

====
